---- MODULE Spec2Model ----
(***************************************************************************)
(* CosmeticsAnalyzer (analysis/cosmetics_analysis.py) as a state machine.  *)
(*                                                                         *)
(* One analyzer object: its fields (df, results_dir, timestamp), the input *)
(* file it reads, the files it has written, and a record of the last call  *)
(* made on it (which methods ran, what they reported, whether an exception *)
(* left the call).  Every public method is one action that runs the whole  *)
(* method, the methods it calls included.                                  *)
(*                                                                         *)
(* The tabular library is modelled by what the calls used here do:         *)
(* read_csv, to_datetime(errors='coerce'), .dt.year, value_counts,         *)
(* groupby/size/unstack, groupby/unique, groupby/nunique, to_csv, savefig. *)
(* Columns modelled: CompanyName, ProductName, ChemicalName,               *)
(* InitialDateReported, DiscontinuedDate and the derived ReportYear.       *)
(* BrandName, PrimaryCategory and SubCategory feed console reports only    *)
(* and are taken to be present.                                            *)
(***************************************************************************)
EXTENDS Integers, Sequences, FiniteSets, TLC

VARIABLES
    phase,        \* "new": not constructed; "ready": constructed; "dead": __init__ raised
    clock,        \* wall clock, in seconds
    csv,          \* the input file's contents (when it exists)
    df,           \* self.df
    results_dir,  \* self.results_dir
    timestamp,    \* self.timestamp
    disk,         \* files under the output directories: path -> contents
    last          \* the last call on the analyzer and what it did

vars == <<phase, clock, csv, df, results_dir, timestamp, disk, last>>

(***************************************************************************)
(* Bounds of the model.                                                     *)
(***************************************************************************)
MaxRows == 2       \* data rows of an input file in the data specifications
MaxRunRows == 1    \* data rows of an input file in the lifecycle specification
MaxClock == 2      \* the clock stops advancing here

(***************************************************************************)
(* Values.                                                                  *)
(***************************************************************************)
NaN == "NaN"                   \* a missing text cell
None == [tag |-> "None"]       \* Python's None
Some(v) == <<v>>               \* a present number in a nullable numeric cell
Missing == <<>>                \* NaN in a nullable numeric cell

RawEmpty == [kind |-> "empty", y |-> 0, m |-> 0, d |-> 0]
RawText == [kind |-> "text", y |-> 0, m |-> 0, d |-> 0]
RawDate(y, m, d) == [kind |-> "ymd", y |-> y, m |-> m, d |-> d]
NaT == [kind |-> "NaT", y |-> 0, m |-> 0, d |-> 0]
Timestamp(y, m, d) == [kind |-> "datetime", y |-> y, m |-> m, d |-> d]

IsLeap(y) == (y % 4 = 0 /\ y % 100 # 0) \/ y % 400 = 0

DaysIn(y, m) ==
    IF m = 2 THEN (IF IsLeap(y) THEN 29 ELSE 28)
    ELSE IF m \in {4, 6, 9, 11} THEN 30 ELSE 31

\* Does the text of a cell denote a calendar date?
Parses(cell) ==
    /\ cell.kind = "ymd"
    /\ cell.m \in 1..12
    /\ cell.d \in 1..DaysIn(cell.y, cell.m)

\* to_datetime without the calendar check: any year-month-day text is kept.
to_datetime_unchecked(cell) ==
    IF cell.kind = "ymd" THEN Timestamp(cell.y, cell.m, cell.d) ELSE NaT

\* pd.to_datetime(..., errors='coerce') on one cell: what does not parse is NaT.
to_datetime(cell) ==
    IF Parses(cell) THEN Timestamp(cell.y, cell.m, cell.d) ELSE NaT

\* .dt.year on one cell.
dt_year(t) == IF t.kind = "datetime" THEN Some(t.y) ELSE Missing

\* Series.notna() on a text cell and on a date cell.
notna(cell) == cell # NaN
notna_date(cell) == cell.kind \in {"ymd", "text", "datetime"}

(***************************************************************************)
(* Frames.  A frame has a set of columns and a sequence of rows; a row is a *)
(* function from the columns to cells.                                      *)
(***************************************************************************)
date_cols ==
    <<"InitialDateReported", "MostRecentDateReported", "DiscontinuedDate",
      "ChemicalCreatedAt", "ChemicalUpdatedAt">>

DataFrame(columns, rows) == [tag |-> "DataFrame", columns |-> columns, rows |-> rows]

\* pd.read_csv on a file that parses: the header's columns, one row per data row.
read_csv(file) == DataFrame(file.columns, file.rows)

\* df[col] = f(df[col]) for every column of cs the frame has.
MapColumns(frame, cs, f(_)) ==
    DataFrame(frame.columns,
        [i \in DOMAIN frame.rows |->
            [c \in frame.columns |->
                IF c \in cs THEN f(frame.rows[i][c]) ELSE frame.rows[i][c]]])

\* The loop of lines 48-50 from the k-th date column on.
RECURSIVE coerce_loop(_, _)
coerce_loop(frame, k) ==
    IF k > Len(date_cols) THEN frame
    ELSE IF date_cols[k] \notin frame.columns THEN coerce_loop(frame, k + 1)
    ELSE coerce_loop(MapColumns(frame, {date_cols[k]}, to_datetime), k + 1)

\* Line 54: df['ReportYear'] = df['InitialDateReported'].dt.year
AddReportYear(frame) ==
    DataFrame(frame.columns \cup {"ReportYear"},
        [i \in DOMAIN frame.rows |->
            [c \in frame.columns \cup {"ReportYear"} |->
                IF c = "ReportYear"
                THEN dt_year(frame.rows[i]["InitialDateReported"])
                ELSE frame.rows[i][c]]])

\* Series.value_counts(): each non-null value of the column with its number of rows.
value_counts(rows, col) ==
    [v \in {rows[i][col] : i \in {j \in DOMAIN rows : notna(rows[j][col])}} |->
        Cardinality({i \in DOMAIN rows : rows[i][col] = v})]

\* groupby(key)[col].nunique(): per non-null key, the distinct non-null values.
nunique_by(rows, key, col) ==
    [k \in {rows[i][key] : i \in {j \in DOMAIN rows : notna(rows[j][key])}} |->
        Cardinality({rows[i][col] :
            i \in {j \in DOMAIN rows : rows[j][key] = k /\ notna(rows[j][col])}})]

\* groupby(key)[col].unique(): per non-null key, the distinct values, NaN among them.
unique_by(rows, key, col) ==
    [k \in {rows[i][key] : i \in {j \in DOMAIN rows : notna(rows[j][key])}} |->
        {rows[i][col] : i \in {j \in DOMAIN rows : rows[j][key] = k}}]

\* counts.head(n).index: the n most frequent values (all of them when there
\* are no more than n; among equal counts the choice is left open here).
head_index(counts, n) ==
    IF Cardinality(DOMAIN counts) <= n THEN DOMAIN counts
    ELSE CHOOSE T \in SUBSET DOMAIN counts :
            /\ Cardinality(T) = n
            /\ \A a \in T, b \in (DOMAIN counts) \ T : counts[a] >= counts[b]

RECURSIVE SumOver(_, _)
SumOver(f, S) ==
    IF S = {} THEN 0
    ELSE LET x == CHOOSE y \in S : TRUE IN f[x] + SumOver(f, S \ {x})

\* format(a / n, ".1f"), in tenths.  A tie is a quotient ending in .25 or .75
\* when n has no odd factor above 1 in lowest terms, which binary floating
\* point holds exactly and the formatting rounds half to even.
Tenths(a, n) ==
    LET q == (10 * a) \div n
        r == (10 * a) % n
    IN  IF 2 * r > n \/ (2 * r = n /\ q % 2 = 1) THEN q + 1 ELSE q

\* groupby(['ReportYear', 'ChemicalName']).size().unstack(): rows with a null
\* key are dropped by groupby; unstack (no fill_value) leaves NaN where a
\* (year, chemical) pair has no row.
size_unstack(rows) ==
    LET kept == {i \in DOMAIN rows :
                    rows[i]["ReportYear"] # Missing /\ notna(rows[i]["ChemicalName"])}
        years == {rows[i]["ReportYear"][1] : i \in kept}
        chems == {rows[i]["ChemicalName"] : i \in kept}
        n(y, c) == Cardinality({i \in kept :
                        rows[i]["ReportYear"] = Some(y) /\ rows[i]["ChemicalName"] = c})
    IN  [index |-> years,
         columns |-> chems,
         cell |-> [yc \in years \X chems |->
                     IF n(yc[1], yc[2]) = 0 THEN Missing ELSE Some(n(yc[1], yc[2]))]]

\* DataFrame.sum(axis=1): per row, the sum of the cells that are not NaN.
sum_axis1(m) ==
    [y \in m.index |->
        SumOver([c \in m.columns |->
                    IF m.cell[<<y, c>>] = Missing THEN 0 ELSE m.cell[<<y, c>>][1]],
                m.columns)]

(***************************************************************************)
(* A call in progress: the analyzer's dataset and the disk as the call has  *)
(* left them so far, the methods entered, what was printed or attempted,    *)
(* the exception travelling up (or "none") and the value returned.          *)
(***************************************************************************)
Begin(op) ==
    [op |-> op, df |-> df, disk |-> disk, calls |-> <<>>, out |-> <<>>,
     exc |-> "none", ret |-> "None"]

Enter(c, method) == [c EXCEPT !.calls = Append(@, method)]
Emit(c, e) == [c EXCEPT !.out = Append(@, e)]
Raise(c, e) == [c EXCEPT !.exc = e]
Return(c, v) == [c EXCEPT !.ret = v]

\* The statement after a call runs only if the call did not raise.
Then(c, rest(_)) == IF c.exc # "none" THEN c ELSE rest(c)

(***************************************************************************)
(* The methods of CosmeticsAnalyzer, each taking the call so far and        *)
(* giving the call after it.                                                *)
(***************************************************************************)

\* Where the library can raise inside load_data after the read.  With
\* errors='coerce' a value that does not parse raises nothing; the .dt
\* accessor of line 54 raises on a column that is not datetime-typed, which
\* is what the conversion leaves of a column of mixed UTC offsets.
LoadErrors == {"none", "dt.year"}

load_data(c, exists, err) ==
    LET c0 == Enter(c, "load_data")
        failed(x, e) == Return(Emit(x, [kind |-> "load_error", exc |-> e]), "False")
    IN  IF ~exists THEN failed(c0, "FileNotFoundError")
        ELSE IF ~csv.parses THEN failed(c0, "ParserError")
        ELSE
            LET raw == read_csv(csv)
                c1 == [c0 EXCEPT !.df = coerce_loop(raw, 1)]
            IN  IF "InitialDateReported" \notin raw.columns
                THEN Return(Emit(c1, [kind |-> "loaded", n |-> Len(c1.df.rows)]), "True")
                ELSE IF err = "dt.year" THEN failed(c1, "AttributeError")
                ELSE
                    LET c2 == [c1 EXCEPT !.df = AddReportYear(c1.df)]
                    IN  Return(Emit(c2, [kind |-> "loaded", n |-> Len(c2.df.rows)]), "True")

\* The categorical columns of line 79 that the model carries.
cat_cols == {"CompanyName", "ChemicalName"}

basic_analysis(c) ==
    LET c0 == Enter(c, "basic_analysis")
    IN  IF c0.df = None THEN Raise(c0, "TypeError")
        ELSE Emit(c0, [kind |-> "describe",
                       n |-> Len(c0.df.rows),
                       unique |-> [col \in cat_cols \cap c0.df.columns |->
                                     Cardinality(DOMAIN value_counts(c0.df.rows, col))]])

\* datetime.now().strftime("%Y%m%d_%H%M%S"): the stamp names the second, and
\* the clock counts half seconds.
strftime(t) == t \div 2

\* The path with the stamp taken again at the time of the write.
output_path_now(filename) == <<results_dir, strftime(clock), filename>>

\* os.path.join(self.results_dir, f"{self.timestamp}_{filename}")
output_path(filename) == <<results_dir, timestamp, filename>>

save_plot(c, filename, figure, fail) ==
    LET c0 == Enter(c, "_save_plot")
        path == output_path(filename)
    IN  IF fail THEN Raise(c0, "OSError")
        ELSE Emit([c0 EXCEPT !.disk =
                      (path :> [name |-> filename, data |-> figure]) @@ @],
                  [kind |-> "saved_plot", name |-> filename])

chemical_analysis(c, plotFail) ==
    LET c0 == Enter(c, "chemical_analysis")
    IN  IF c0.df = None THEN Raise(c0, "TypeError")
        ELSE
            LET chem_counts == value_counts(c0.df.rows, "ChemicalName")
                c1 == Emit(c0, [kind |-> "top_chemicals", counts |-> chem_counts])
            IN  IF "ReportYear" \notin c0.df.columns THEN c1
                ELSE
                    LET chem_trends == size_unstack(c0.df.rows)
                        c2 == Emit(c1, [kind |-> "chem_trends",
                                        matrix |-> chem_trends,
                                        totals |-> sum_axis1(chem_trends)])
                        top_chems == head_index(chem_counts, 5)
                        lines == [ch \in top_chems \cap chem_trends.columns |->
                                    [y \in chem_trends.index |-> chem_trends.cell[<<y, ch>>]]]
                    IN  save_plot(c2, "chemical_trends.png", lines, plotFail)

\* groupby('CompanyName').agg({'ProductName': 'nunique', 'ChemicalName': 'nunique'})
company_stats(rows) ==
    [k \in DOMAIN nunique_by(rows, "CompanyName", "ProductName") |->
        [ProductName |-> nunique_by(rows, "CompanyName", "ProductName")[k],
         ChemicalName |-> nunique_by(rows, "CompanyName", "ChemicalName")[k]]]

\* Line 144 without its test: the subset is tabulated and plotted even when empty.
has_rows_unguarded(discontinued) == TRUE

\* The guard of line 144: len(discontinued) > 0
has_rows(discontinued) == Len(discontinued) > 0

product_analysis(c, plotFail) ==
    LET c0 == Enter(c, "product_analysis")
    IN  IF c0.df = None THEN Raise(c0, "TypeError")
        ELSE
            LET c1 == Emit(c0, [kind |-> "company_stats",
                                stats |-> company_stats(c0.df.rows)])
            IN  IF "DiscontinuedDate" \notin c0.df.columns THEN c1
                ELSE
                    LET discontinued ==
                            SelectSeq(c0.df.rows,
                                      LAMBDA r : notna_date(r["DiscontinuedDate"]))
                        c2 == Emit(c1, [kind |-> "discontinued_size",
                                        n |-> Len(discontinued)])
                    IN  IF has_rows(discontinued)
                        THEN
                            LET disc_chem == value_counts(discontinued, "ChemicalName")
                                c3 == Emit(c2, [kind |-> "discontinued_chemicals",
                                                counts |-> disc_chem])
                            IN  \* a bar plot of an empty table raises in the library
                                IF DOMAIN disc_chem = {} THEN Raise(c3, "IndexError")
                                ELSE save_plot(c3, "discontinued_chemicals.png",
                                               [ch \in head_index(disc_chem, 10) |->
                                                   disc_chem[ch]],
                                               plotFail)
                        ELSE c2

advanced_analysis(c) ==
    LET c0 == Enter(c, "advanced_analysis")
    IN  IF c0.df = None THEN Raise(c0, "TypeError")
        ELSE
            LET product_chems == unique_by(c0.df.rows, "ProductName", "ChemicalName")
                lens == [p \in DOMAIN product_chems |-> Cardinality(product_chems[p])]
                mean == IF DOMAIN lens = {} THEN Missing
                        ELSE Some(Tenths(SumOver(lens, DOMAIN lens),
                                         Cardinality(DOMAIN lens)))
            IN  Emit(c0, [kind |-> "avg_chemicals", per_product |-> lens, mean |-> mean])

\* One to_csv of save_results.  A failing write fails opening its target (the
\* directory is gone or not writable) and leaves it as it was.
to_csv(c, filename, table, fails) ==
    LET path == output_path(filename)
        c0 == Emit(c, [kind |-> "write", name |-> filename])
    IN  IF fails THEN Raise(c0, "OSError")
        ELSE [c0 EXCEPT !.disk = (path :> [name |-> filename, data |-> table]) @@ @]

\* The try block of save_results, lines 188-203.
save_body(c, failAt) ==
    IF c.df = None THEN Raise(c, "AttributeError")
    ELSE
        LET w1 == to_csv(c, "cleaned_data.csv", c.df, failAt = 1)
            w2 == Then(w1, LAMBDA x :
                    to_csv(x, "chemical_counts.csv",
                           value_counts(c.df.rows, "ChemicalName"), failAt = 2))
            w3 == Then(w2, LAMBDA x :
                    to_csv(x, "company_stats.csv",
                           company_stats(c.df.rows), failAt = 3))
        IN  Then(w3, LAMBDA x : Emit(x, [kind |-> "results_saved"]))

\* save_results with the handler reporting and raising again.
save_results_reraise(c, failAt) ==
    LET body == save_body(Enter(c, "save_results"), failAt)
    IN  IF body.exc # "none"
        THEN Emit(body, [kind |-> "save_error", exc |-> body.exc])
        ELSE body

save_results(c, failAt) ==
    LET body == save_body(Enter(c, "save_results"), failAt)
    IN  IF body.exc # "none"
        THEN Emit([body EXCEPT !.exc = "none"], [kind |-> "save_error", exc |-> body.exc])
        ELSE body

run_full_analysis(c, in) ==
    LET c0 == Enter(c, "run_full_analysis")
        c1 == load_data(c0, in.exists, in.err)
    IN  IF c1.ret # "True" THEN Return(c1, "None")
        ELSE
            LET c2 == basic_analysis(c1)
                c3 == Then(c2, LAMBDA x : chemical_analysis(x, in.plotFail1))
                c4 == Then(c3, LAMBDA x : product_analysis(x, in.plotFail2))
                c5 == Then(c4, LAMBDA x : advanced_analysis(x))
                c6 == Then(c5, LAMBDA x : save_results(x, in.failAt))
            IN  Return(c6, "None")

\* _setup_directories: the directory the analyzer ends with, and the
\* exception of the unguarded makedirs of line 26, if it raises.
setup_directories(primaryOK, desktopOK) ==
    IF primaryOK THEN [results_dir |-> "analysis_results", exc |-> "none"]
    ELSE [results_dir |-> "Desktop/cosmetics_analysis",
          exc |-> IF desktopOK THEN "none" ELSE "OSError"]

(***************************************************************************)
(* Actions: one per public entry point, plus the clock.                     *)
(***************************************************************************)
NoCall == [op |-> "none", calls |-> <<>>, out |-> <<>>, exc |-> "none", ret |-> "None"]

Called(c) == [op |-> c.op, calls |-> c.calls, out |-> c.out, exc |-> c.exc, ret |-> c.ret]

Finish(c) ==
    /\ df' = c.df
    /\ disk' = c.disk
    /\ last' = Called(c)
    /\ UNCHANGED <<phase, clock, csv, results_dir, timestamp>>

\* __init__(data_path); whether each makedirs can succeed is the environment's.
Construct(primaryOK, desktopOK) ==
    LET dirs == setup_directories(primaryOK, desktopOK)
    IN  /\ phase = "new"
        /\ df' = None
        /\ timestamp' = strftime(clock)
        /\ results_dir' = dirs.results_dir
        /\ phase' = IF dirs.exc = "none" THEN "ready" ELSE "dead"
        /\ last' = [NoCall EXCEPT !.op = "__init__",
                                  !.calls = <<"__init__", "_setup_directories">>,
                                  !.exc = dirs.exc]
        /\ UNCHANGED <<clock, csv, disk>>

Tick ==
    /\ clock < MaxClock
    /\ clock' = clock + 1
    /\ UNCHANGED <<phase, csv, df, results_dir, timestamp, disk, last>>

LoadData(exists, err) ==
    /\ phase = "ready"
    /\ Finish(load_data(Begin("load_data"), exists, err))

BasicAnalysis ==
    /\ phase = "ready"
    /\ Finish(basic_analysis(Begin("basic_analysis")))

ChemicalAnalysis(plotFail) ==
    /\ phase = "ready"
    /\ Finish(chemical_analysis(Begin("chemical_analysis"), plotFail))

ProductAnalysis(plotFail) ==
    /\ phase = "ready"
    /\ Finish(product_analysis(Begin("product_analysis"), plotFail))

AdvancedAnalysis ==
    /\ phase = "ready"
    /\ Finish(advanced_analysis(Begin("advanced_analysis")))

SaveResults(failAt) ==
    /\ phase = "ready"
    /\ Finish(save_results(Begin("save_results"), failAt))

\* What the environment does to one run: whether the file is there, and the
\* one place where a library call fails.  The first exception that leaves a
\* step ends the run, and a failed write ends save_results, so no second
\* fault of a run is ever consulted.
Faults(in) ==
    (IF in.exists THEN 0 ELSE 1) + (IF in.err = "none" THEN 0 ELSE 1)
    + (IF in.plotFail1 THEN 1 ELSE 0) + (IF in.plotFail2 THEN 1 ELSE 0)
    + (IF in.failAt = 0 THEN 0 ELSE 1)

RunInputs ==
    {in \in [exists : BOOLEAN, err : LoadErrors, plotFail1 : BOOLEAN,
             plotFail2 : BOOLEAN, failAt : 0..3] : Faults(in) <= 1}

RunFullAnalysis(in) ==
    /\ phase = "ready"
    /\ Finish(run_full_analysis(Begin("run_full_analysis"), in))

(***************************************************************************)
(* Input files.                                                             *)
(***************************************************************************)
SeqsUpTo(S, n) == UNION {[1..k -> S] : k \in 0..n}

File(columns, rows) == [parses |-> TRUE, columns |-> columns, rows |-> rows]
Malformed == [parses |-> FALSE, columns |-> {}, rows |-> <<>>]

Base == {"CompanyName", "ProductName", "ChemicalName"}

FilesPlain(P, Ch, n) ==
    {File(Base, rows) :
        rows \in SeqsUpTo([CompanyName : {"Co1"}, ProductName : P, ChemicalName : Ch], n)}

FilesInitial(P, Ch, I, n) ==
    {File(Base \cup {"InitialDateReported"}, rows) :
        rows \in SeqsUpTo([CompanyName : {"Co1"}, ProductName : P, ChemicalName : Ch,
                           InitialDateReported : I], n)}

FilesDiscontinued(P, Ch, D, n) ==
    {File(Base \cup {"DiscontinuedDate"}, rows) :
        rows \in SeqsUpTo([CompanyName : {"Co1"}, ProductName : P, ChemicalName : Ch,
                           DiscontinuedDate : D], n)}

FilesBoth(P, Ch, I, D, n) ==
    {File(Base \cup {"InitialDateReported", "DiscontinuedDate"}, rows) :
        rows \in SeqsUpTo([CompanyName : {"Co1"}, ProductName : P, ChemicalName : Ch,
                           InitialDateReported : I, DiscontinuedDate : D], n)}

\* Texts of a date cell: empty, not a date, dates, and year-month-day texts
\* that name no day of the calendar.
RawDates ==
    {RawEmpty, RawText, RawDate(2019, 2, 28), RawDate(2019, 2, 29),
     RawDate(2020, 2, 29), RawDate(2020, 13, 1)}

\* The files of the lifecycle specification: unreadable, without the optional
\* date columns, and with them (records discontinued or not).
RunFiles ==
    LET I == {RawDate(2019, 5, 6)}
        D == {RawEmpty, RawDate(2021, 3, 1)}
    IN  {Malformed}
        \cup FilesPlain({"P1"}, {"A"}, MaxRunRows)
        \cup FilesBoth({"P1"}, {"A"}, I, D, MaxRunRows)

\* The files of the data specification: each family varies the columns one
\* analysis reads.
DataFiles ==
    LET Ch == {NaN, "A", "B"}
    IN  FilesInitial({"P1"}, {"A"}, RawDates, MaxRows)
        \cup FilesDiscontinued({"P1"}, Ch, {RawEmpty, RawText, RawDate(2021, 3, 1)}, MaxRows)
        \cup FilesInitial({"P1"}, Ch,
                          {RawEmpty, RawDate(2019, 5, 6), RawDate(2020, 7, 8)}, MaxRows)
        \cup FilesPlain({NaN, "P1", "P2"}, Ch, MaxRows)

(***************************************************************************)
(* Specifications.                                                          *)
(***************************************************************************)
\* Before construction, in a process started with any of the input files.
Init ==
    /\ phase = "new"
    /\ clock = 0
    /\ csv \in RunFiles
    /\ df = None
    /\ results_dir = ""
    /\ timestamp = 0
    /\ disk = <<>>
    /\ last = NoCall

Next ==
    \/ \E primaryOK \in BOOLEAN, desktopOK \in BOOLEAN : Construct(primaryOK, desktopOK)
    \/ Tick
    \/ \E exists \in BOOLEAN, err \in LoadErrors : LoadData(exists, err)
    \/ BasicAnalysis
    \/ \E plotFail \in BOOLEAN : ChemicalAnalysis(plotFail)
    \/ \E plotFail \in BOOLEAN : ProductAnalysis(plotFail)
    \/ AdvancedAnalysis
    \/ \E failAt \in 0..3 : SaveResults(failAt)
    \/ \E in \in RunInputs : RunFullAnalysis(in)

Spec == Init /\ [][Next]_vars

\* The analyzer as constructed (primary directory created), on any data file.
InitData ==
    /\ phase = "ready"
    /\ clock = 0
    /\ csv \in DataFiles
    /\ df = None
    /\ results_dir = "analysis_results"
    /\ timestamp = 0
    /\ disk = <<>>
    /\ last = [NoCall EXCEPT !.op = "__init__",
                             !.calls = <<"__init__", "_setup_directories">>]

NextData ==
    \/ \E exists \in BOOLEAN, err \in LoadErrors : LoadData(exists, err)
    \/ \E plotFail \in BOOLEAN : ChemicalAnalysis(plotFail)
    \/ \E plotFail \in BOOLEAN : ProductAnalysis(plotFail)
    \/ AdvancedAnalysis

SpecData == InitData /\ [][NextData]_vars

(***************************************************************************)
(* Reading the record of the last call.                                     *)
(***************************************************************************)
Range(q) == {q[i] : i \in DOMAIN q}

Events(kind) == SelectSeq(last.out, LAMBDA e : e.kind = kind)
Happened(kind) == Events(kind) # <<>>
Entered(method) == method \in Range(last.calls)

AnalysisSteps ==
    <<"basic_analysis", "chemical_analysis", "product_analysis",
      "advanced_analysis", "save_results">>

\* The steps of a run that were entered, in the order they were entered.
StepsRun == SelectSeq(last.calls, LAMBDA m : m \in Range(AnalysisSteps))

WriteOrder == <<"cleaned_data.csv", "chemical_counts.csv", "company_stats.csv">>
PlotNames == {"chemical_trends.png", "discontinued_chemicals.png"}

\* The names of the writes save_results attempted, in order.
Writes == [i \in DOMAIN Events("write") |-> Events("write")[i].name]

\* What a complete write of each table holds, for the dataset as it is.
TableNow(name) ==
    IF name = "cleaned_data.csv" THEN df
    ELSE IF name = "chemical_counts.csv" THEN value_counts(df.rows, "ChemicalName")
    ELSE company_stats(df.rows)

Written(name) ==
    /\ <<results_dir, timestamp, name>> \in DOMAIN disk
    /\ disk[<<results_dir, timestamp, name>>] = [name |-> name, data |-> TableNow(name)]

(***************************************************************************)
(* C1.  RunFullAnalysis calls Load first; after a failed Load no analysis   *)
(* step is entered; after a successful Load the five steps are entered      *)
(* once each, in order, none skipped.                                       *)
(***************************************************************************)
C1_RunOrder ==
    last.op = "run_full_analysis" =>
        /\ Len(last.calls) >= 2
        /\ last.calls[1] = "run_full_analysis"
        /\ last.calls[2] = "load_data"
        /\ Happened("load_error") => StepsRun = <<>>
        /\ Happened("loaded") => StepsRun = AnalysisSteps

(***************************************************************************)
(* C2.  Whenever Load reports failure, no exception leaves it and the       *)
(* dataset is unset afterwards, on every call.                              *)
(***************************************************************************)
C2_FailedLoadLeavesUnset ==
    (last.op = "load_data" /\ last.ret = "False") =>
        (last.exc = "none" /\ df = None)

(***************************************************************************)
(* C3.  The constructor returns an analyzer, raising nothing, whichever of  *)
(* the two directories can be created.                                      *)
(***************************************************************************)
C3_ConstructNeverRaises ==
    last.op = "__init__" => (last.exc = "none" /\ phase = "ready")

(***************************************************************************)
(* C4.  SaveResults attempts cleaned_data, chemical_counts, company_stats   *)
(* in that order; no exception leaves it; when a write fails the later      *)
(* writes are not attempted and the files written before it are in place.   *)
(***************************************************************************)
C4_SaveResults ==
    Entered("save_results") =>
        /\ last.exc = "none"
        /\ Len(Writes) <= 3
        /\ Writes = SubSeq(WriteOrder, 1, Len(Writes))
        /\ Happened("save_error") # Happened("results_saved")
        /\ Happened("results_saved") =>
              /\ Writes = WriteOrder
              /\ \A i \in 1..3 : Written(WriteOrder[i])
        /\ (Happened("save_error") /\ df # None) =>
              /\ Len(Writes) >= 1
              /\ \A i \in 1..(Len(Writes) - 1) : Written(WriteOrder[i])
        /\ (Happened("save_error") /\ df = None) => Writes = <<>>

\* The second write failed: the first file is there, the other two are not.
C4_Witness ==
    /\ last.op = "save_results"
    /\ Happened("save_error")
    /\ Len(Writes) = 2
    /\ Written(WriteOrder[1])
    /\ <<results_dir, timestamp, WriteOrder[2]>> \notin DOMAIN disk
    /\ <<results_dir, timestamp, WriteOrder[3]>> \notin DOMAIN disk

(***************************************************************************)
(* C6.  The stamp and the output directory are fixed at construction and    *)
(* no later operation changes them; every file written is named             *)
(* <output dir>/<stamp>_<name>; a SaveResults that succeeds leaves exactly  *)
(* one file per name, holding the tables of the dataset as it is then.      *)
(***************************************************************************)
C6_NamesFixed ==
    /\ \A p \in DOMAIN disk :
          /\ p[1] = results_dir
          /\ p[2] = timestamp
          /\ p[3] \in Range(WriteOrder) \cup PlotNames
    /\ (Entered("save_results") /\ Happened("results_saved")) =>
          \A i \in 1..3 : Written(WriteOrder[i])

\* A step of a constructed analyzer keeps both fields, and a SaveResults that
\* succeeds adds no path but its three: files already there under those
\* names are replaced.
C6_FieldsKept ==
    phase = "ready" =>
        /\ timestamp' = timestamp
        /\ results_dir' = results_dir
        /\ (last'.op = "save_results" /\ Happened("results_saved")') =>
              DOMAIN disk' =
                  DOMAIN disk \cup {<<results_dir, timestamp, WriteOrder[i]>> : i \in 1..3}

\* C6: the stamp and the directory never change after construction, every
\* file is named by them, and a repeated SaveResults replaces its three files.
C6_StampAndDirectory == [](C6_NamesFixed) /\ [][C6_FieldsKept]_vars

\* A save that succeeded in a later second than the one of construction, by
\* an analyzer that has also saved its trend chart.
C6_Witness ==
    /\ last.op = "save_results"
    /\ Happened("results_saved")
    /\ strftime(clock) # timestamp
    /\ \A i \in 1..3 : Written(WriteOrder[i])
    /\ <<results_dir, timestamp, "chemical_trends.png">> \in DOMAIN disk
    /\ DOMAIN disk[<<results_dir, timestamp, "chemical_trends.png">>].data
          = DOMAIN value_counts(df.rows, "ChemicalName")

(***************************************************************************)
(* C8.  A chart that cannot be saved is reported where it happens: in a run *)
(* that reached a chart save, no exception leaves RunFullAnalysis and       *)
(* AdvancedAnalysis and SaveResults still run.                              *)
(***************************************************************************)
C8_ChartFailureContained ==
    (last.op = "run_full_analysis" /\ Entered("_save_plot")) =>
        /\ last.exc = "none"
        /\ Entered("advanced_analysis")
        /\ Entered("save_results")

(***************************************************************************)
(* The data claims, over the frames the last call left.                     *)
(***************************************************************************)
Loaded == df # None
Has(col) == Loaded /\ col \in df.columns

\* The rows of the dataset with a non-null DiscontinuedDate.
DiscontinuedRows == {i \in DOMAIN df.rows : df.rows[i]["DiscontinuedDate"] # NaT}

ChartSaved(name) ==
    \E i \in DOMAIN Events("saved_plot") : Events("saved_plot")[i].name = name

(***************************************************************************)
(* C5 as stated.  When the dataset has no DiscontinuedDate column the       *)
(* subset-size report and the chart are both skipped; when it has one both  *)
(* are produced, the subset being empty or not.                             *)
(***************************************************************************)
C5_ChartWheneverColumn ==
    (last.op = "product_analysis" /\ Loaded /\ last.exc = "none") =>
        /\ Happened("discontinued_size") <=> Has("DiscontinuedDate")
        /\ ChartSaved("discontinued_chemicals.png") <=> Has("DiscontinuedDate")

(***************************************************************************)
(* C5 as amended.  Without the column nothing of the subset analysis is     *)
(* produced.  With it the subset-size report is always produced and gives   *)
(* the number of records with a non-null DiscontinuedDate (0 for an empty   *)
(* subset); the chemical table and the chart are produced only for a        *)
(* non-empty subset, and an empty subset ends the step with no chart and no *)
(* exception.                                                               *)
(***************************************************************************)
C5_SubsetAnalysis ==
    (last.op = "product_analysis" /\ Loaded) =>
        /\ Happened("discontinued_size") <=> Has("DiscontinuedDate")
        /\ ~Has("DiscontinuedDate") =>
              /\ ~Happened("discontinued_chemicals")
              /\ ~Entered("_save_plot")
              /\ last.exc = "none"
        /\ Has("DiscontinuedDate") =>
              /\ Len(Events("discontinued_size")) = 1
              /\ Events("discontinued_size")[1].n = Cardinality(DiscontinuedRows)
              /\ Happened("discontinued_chemicals") <=> DiscontinuedRows # {}
              /\ Entered("_save_plot") => DiscontinuedRows # {}
              /\ ChartSaved("discontinued_chemicals.png") => DiscontinuedRows # {}
              /\ DiscontinuedRows = {} => last.exc = "none"

\* The column is there, no record is discontinued: size 0 reported, no chart.
C5_Witness ==
    /\ last.op = "product_analysis"
    /\ Has("DiscontinuedDate")
    /\ Len(df.rows) > 0
    /\ DiscontinuedRows = {}
    /\ Happened("discontinued_size")
    /\ Events("discontinued_size")[1].n = 0
    /\ ~ChartSaved("discontinued_chemicals.png")
    /\ last.exc = "none"

(***************************************************************************)
(* C7.  After a Load that succeeds on a file with an InitialDateReported    *)
(* column, the dataset has one record per data row of the file, and each    *)
(* record's ReportYear is the year of its InitialDateReported when that     *)
(* text is a date and null otherwise; a Load that fails never fails for a   *)
(* value that does not parse.                                               *)
(***************************************************************************)
C7_ReportYear ==
    last.op = "load_data" =>
        /\ (last.ret = "True" /\ "InitialDateReported" \in csv.columns) =>
              /\ Has("ReportYear")
              /\ Len(df.rows) = Len(csv.rows)
              /\ \A i \in DOMAIN csv.rows :
                    df.rows[i]["ReportYear"] =
                        IF Parses(csv.rows[i]["InitialDateReported"])
                        THEN Some(csv.rows[i]["InitialDateReported"].y)
                        ELSE Missing
        /\ last.ret = "False" =>
              /\ Len(Events("load_error")) = 1
              /\ Events("load_error")[1].exc
                    \in {"FileNotFoundError", "ParserError", "AttributeError"}

\* A loaded file with a date, a year-month-day text that is no date and an
\* empty cell or a text.
C7_Witness ==
    /\ last.op = "load_data"
    /\ last.ret = "True"
    /\ Has("ReportYear")
    /\ \E i, j \in DOMAIN csv.rows :
          /\ csv.rows[i]["InitialDateReported"] = RawDate(2019, 2, 29)
          /\ df.rows[i]["ReportYear"] = Missing
          /\ csv.rows[j]["InitialDateReported"] = RawDate(2020, 2, 29)
          /\ df.rows[j]["ReportYear"] = Some(2020)

(***************************************************************************)
(* C9.  The count AdvancedAnalysis averages is, for each non-null           *)
(* ProductName, the number of distinct non-null ChemicalName values of its  *)
(* records: a record with a null ChemicalName adds nothing.                 *)
(***************************************************************************)
C9_DistinctNonNull ==
    (last.op = "advanced_analysis" /\ Loaded) =>
        /\ Len(Events("avg_chemicals")) = 1
        /\ Events("avg_chemicals")[1].per_product
              = nunique_by(df.rows, "ProductName", "ChemicalName")

(***************************************************************************)
(* C10.  With ReportYear present, the year-by-chemical matrix has a row per *)
(* non-null year and a column per chemical, a pair with no records holds    *)
(* zero, and each per-year total is the number of records of that year with *)
(* a non-null ChemicalName.                                                 *)
(***************************************************************************)
YearsOf(rows) ==
    {rows[i]["ReportYear"][1] : i \in {j \in DOMAIN rows : rows[j]["ReportYear"] # Missing}}

C10_ZeroFilledMatrix ==
    (last.op = "chemical_analysis" /\ Has("ReportYear")) =>
        /\ Len(Events("chem_trends")) = 1
        /\ LET m == Events("chem_trends")[1].matrix
               totals == Events("chem_trends")[1].totals
               records(y, c) ==
                   {i \in DOMAIN df.rows :
                       df.rows[i]["ReportYear"] = Some(y) /\ df.rows[i]["ChemicalName"] = c}
           IN  /\ m.index = YearsOf(df.rows)
               /\ m.columns = DOMAIN value_counts(df.rows, "ChemicalName")
               /\ \A y \in m.index, c \in m.columns :
                     m.cell[<<y, c>>] = Some(Cardinality(records(y, c)))
               /\ \A y \in m.index :
                     totals[y] = Cardinality(UNION {records(y, c) : c \in m.columns})

====
